---- MODULE Spec2Model ----
(***************************************************************************)
(* Model of massa-pos-exports/src/cycle_info.rs: the per-cycle PoS state   *)
(* (CycleInfo), its XOR-aggregated hashes, ProductionStats and the bounded *)
(* binary codec of CycleInfo and of the cycle history.                     *)
(*                                                                         *)
(* Bytes are integers 0..255, buffers are sequences of bytes.  u64 values  *)
(* are modelled as unsigned integers of U64Bits bits (TLC integers are 32  *)
(* bits wide), arithmetic on them keeps that width.                        *)
(***************************************************************************)
EXTENDS Integers, Sequences, FiniteSets, TLC

VARIABLES
    cycle_info,       \* the CycleInfo value held in memory (or NoCycleInfo)
    buffer,           \* the CycleInfo byte buffer last written / received
    decoded,          \* the result of CycleInfoDeserializer::deserialize(buffer)
    history,          \* a cycle history: sequence of CycleInfo
    history_buffer,   \* the cycle-history byte buffer last written / received
    history_decoded,  \* the result of CycleHistoryDeserializer::deserialize
    other_info,       \* a second CycleInfo, built from the same entries
    iter_orders,      \* the orders in which the two production_stats iterated
    roll_map,         \* a roll-count mapping mutated entry by entry
    roll_aggregate,   \* the incrementally maintained roll_counts_hash of roll_map
    roll_ops,         \* the last two operations applied to roll_map, latest first
    stats,            \* a ProductionStats value (self of extend / is_satisfying)
    stats_arg,        \* the argument of the last extend, before and after the call
    stats_prev,       \* the value of stats before the last extend
    satisfying,       \* the last is_satisfying call: its ratio and its outcome
    extends,          \* the number of extend calls made on stats
    pc                \* the step the scenario is at

vars == <<cycle_info, buffer, decoded, history, history_buffer, history_decoded,
          other_info, iter_orders, roll_map, roll_aggregate, roll_ops,
          stats, stats_arg, stats_prev, satisfying, extends, pc>>

codec_vars == <<cycle_info, buffer, decoded, history, history_buffer, history_decoded>>
hash_vars == <<other_info, iter_orders, roll_map, roll_aggregate, roll_ops>>
stats_vars == <<stats, stats_arg, stats_prev, satisfying, extends>>

(***************************************************************************)
(* Bounds of the model.                                                    *)
(***************************************************************************)
\* width of the modelled u64
U64Bits == 8
\* number of distinct addresses the inputs draw from
NumAddresses == 2
\* largest rng_seed length (in bits) the inputs draw from
MaxSeedBits == 9
\* decoder construction parameters
MaxRollsLength == 2
MaxProductionStatsLength == 2
MaxCycleHistoryLength == 2

\* width of the modelled Hash in bytes (32 in massa_hash)
HASH_SIZE_BYTES == 4

RECURSIVE Pow2(_)
Pow2(n) == IF n = 0 THEN 1 ELSE 2 * Pow2(n - 1)

U64_MAX == Pow2(U64Bits) - 1
U64 == 0..U64_MAX
Byte == 0..255
Addresses == 1..NumAddresses

Min(a, b) == IF a <= b THEN a ELSE b

(***************************************************************************)
(* Results of parsers: nom's IResult.  Ok carries the value and the rest   *)
(* of the input, Err carries the context label of the failing parser and   *)
(* no value.                                                               *)
(***************************************************************************)
Ok(v, rest) == [ok |-> TRUE, value |-> v, rest |-> rest]
Err(ctx) == [ok |-> FALSE, err |-> ctx]

\* sequencing of parsers: the next parser runs on a success, an error is
\* handed on as it is
AndThen(r, F(_)) == IF r.ok THEN F(r) ELSE r

Drop(s, n) == SubSeq(s, n + 1, Len(s))
Take(s, n) == SubSeq(s, 1, n)

(***************************************************************************)
(* U64VarIntSerializer / U64VarIntDeserializer (massa_serialization):      *)
(* unsigned LEB128, canonical, with an inclusive range on decode.          *)
(***************************************************************************)
RECURSIVE U64VarIntSerialize(_)
U64VarIntSerialize(v) ==
    IF v < 128 THEN <<v>>
    ELSE <<(v % 128) + 128>> \o U64VarIntSerialize(v \div 128)

\* the largest number of bytes a varint of U64Bits bits takes
VarIntMaxBytes == (U64Bits + 6) \div 7

RECURSIVE VarIntDecode(_, _, _, _)
VarIntDecode(buf, i, acc, scale) ==
    IF i > Len(buf) THEN Err(<<"varint: insufficient">>)
    ELSE LET b == buf[i]
             n == acc + (b % 128) * scale
         IN IF n > U64_MAX THEN Err(<<"varint: overflow">>)
            ELSE IF b < 128
                 THEN IF b = 0 /\ i > 1 THEN Err(<<"varint: not minimal">>)
                      ELSE Ok(n, Drop(buf, i))
                 ELSE IF i = VarIntMaxBytes THEN Err(<<"varint: overflow">>)
                      ELSE VarIntDecode(buf, i + 1, n, scale * 128)

U64VarIntDeserialize(buf, lo, hi) ==
    AndThen(VarIntDecode(buf, 1, 0, 1),
            LAMBDA r : IF r.value < lo \/ r.value > hi
                       THEN Err(<<"varint: out of range">>)
                       ELSE r)

(***************************************************************************)
(* AddressSerializer / AddressDeserializer (massa_models): a fixed-size    *)
(* encoding; addresses are totally ordered.                                *)
(***************************************************************************)
ADDRESS_SIZE_BYTES == 2

AddressSerialize(addr) == <<addr \div 256, addr % 256>>

AddressDeserialize(buf) ==
    IF Len(buf) < ADDRESS_SIZE_BYTES THEN Err(<<"address: eof">>)
    ELSE Ok(buf[1] * 256 + buf[2], Drop(buf, ADDRESS_SIZE_BYTES))

(***************************************************************************)
(* BitVecSerializer / BitVecDeserializer (massa_models): the bit count as  *)
(* a varint, then the bits packed least-significant-bit first.             *)
(***************************************************************************)
RECURSIVE PackByte(_, _, _)
PackByte(bits, from, k) ==
    IF k = 8 \/ from + k > Len(bits) THEN 0
    ELSE bits[from + k] * Pow2(k) + PackByte(bits, from, k + 1)

BitVecBytes(bits) ==
    [j \in 1..((Len(bits) + 7) \div 8) |-> PackByte(bits, 8 * (j - 1) + 1, 0)]

BitVecSerialize(bits) == U64VarIntSerialize(Len(bits)) \o BitVecBytes(bits)

BitVecDeserialize(buf) ==
    AndThen(U64VarIntDeserialize(buf, 0, U64_MAX),
            LAMBDA n :
                IF Len(n.rest) < (n.value + 7) \div 8 THEN Err(<<"bitvec: eof">>)
                ELSE Ok([k \in 1..n.value |->
                            (n.rest[((k - 1) \div 8) + 1] \div Pow2((k - 1) % 8)) % 2],
                        Drop(n.rest, (n.value + 7) \div 8)))

(***************************************************************************)
(* Hash (massa_hash): a fixed-width value, here HASH_SIZE_BYTES bytes.     *)
(* compute_from is a deterministic function of the bytes; XOR is bytewise. *)
(***************************************************************************)
\* the sum of the position-weighted bytes lo..hi, by halves
RECURSIVE HashMix(_, _, _, _, _)
HashMix(bytes, lo, hi, mul, prime) ==
    IF lo > hi THEN 0
    ELSE IF lo = hi
         THEN ((bytes[lo] + 1) * ((lo * lo * mul + 3 * lo + 1) % prime)) % prime
         ELSE LET mid == (lo + hi) \div 2
              IN (HashMix(bytes, lo, mid, mul, prime)
                     + HashMix(bytes, mid + 1, hi, mul, prime)) % prime

HashComputeFrom(bytes) ==
    LET n == Len(bytes)
        a == (HashMix(bytes, 1, n, 31, 65521) + 7919 * (n + 1)) % 65521
        b == (HashMix(bytes, 1, n, 37, 65519) + 104729 * (n + 1)) % 65519
    IN [i \in 1..HASH_SIZE_BYTES |->
           IF i % 2 = 1 THEN ((a * (i + 2) + i) % 65521) % 256
                        ELSE ((b * (i + 2) + i) % 65519) % 256]

HashToBytes(h) == h
HashFromBytes(bytes) == bytes

RECURSIVE XorBits(_, _, _)
XorBits(a, b, k) ==
    IF k = 0 THEN 0
    ELSE ((a + b) % 2) + 2 * XorBits(a \div 2, b \div 2, k - 1)

XorNibble == [a \in 0..15 |-> [b \in 0..15 |-> XorBits(a, b, 4)]]

XorByte(a, b) == 16 * XorNibble[a \div 16][b \div 16] + XorNibble[a % 16][b % 16]

HashXor(h1, h2) == [i \in 1..HASH_SIZE_BYTES |-> XorByte(h1[i], h2[i])]

HashSerialize(h) == HashToBytes(h)

HashDeserialize(buf) ==
    IF Len(buf) < HASH_SIZE_BYTES THEN Err(<<"hash: eof">>)
    ELSE Ok(HashFromBytes(Take(buf, HASH_SIZE_BYTES)), Drop(buf, HASH_SIZE_BYTES))

(***************************************************************************)
(* OptionSerializer / OptionDeserializer (massa_serialization): one        *)
(* presence byte, then the value when present.  Options are modelled as    *)
(* sequences of length 0 (None) or 1 (Some).                               *)
(***************************************************************************)
None == <<>>
Some(v) == <<v>>

OPTION_NONE_TAG == 48
OPTION_SOME_TAG == 49

OptionHashSerialize(opt) ==
    IF opt = None THEN <<OPTION_NONE_TAG>>
    ELSE <<OPTION_SOME_TAG>> \o HashSerialize(opt[1])

OptionHashDeserialize(buf) ==
    IF Len(buf) = 0 THEN Err(<<"option: eof">>)
    ELSE IF buf[1] = OPTION_NONE_TAG THEN Ok(None, Tail(buf))
    ELSE IF buf[1] = OPTION_SOME_TAG
         THEN AndThen(HashDeserialize(Tail(buf)), LAMBDA h : Ok(Some(h.value), h.rest))
    ELSE Err(<<"option: tag">>)

(***************************************************************************)
(* Maps.  A BTreeMap / PreHashMap is a function whose domain is its key    *)
(* set.  A BTreeMap iterates in key order; a PreHashMap iterates in an     *)
(* order the caller cannot choose: every iteration over one takes the      *)
(* order as a parameter drawn from IterOrders.                             *)
(***************************************************************************)
EmptyMap == [a \in {} |-> 0]

RECURSIVE SortedKeys(_)
SortedKeys(S) ==
    IF S = {} THEN <<>>
    ELSE LET m == CHOOSE x \in S : \A y \in S : x <= y
         IN <<m>> \o SortedKeys(S \ {m})

IterOrders(m) ==
    LET D == DOMAIN m
        n == Cardinality(D)
    IN {s \in [1..n -> D] : \A i, j \in 1..n : s[i] = s[j] => i = j}

\* a variant of collect in which the first pair of a key is kept
RECURSIVE CollectFirstWins(_, _)
CollectFirstWins(pairs, m) ==
    IF pairs = <<>> THEN m
    ELSE CollectFirstWins(Tail(pairs),
                          [a \in (DOMAIN m) \cup {pairs[1][1]} |->
                              IF a \in DOMAIN m THEN m[a] ELSE pairs[1][2]])

\* Iterator::collect into a map: a later pair overwrites an earlier one
RECURSIVE Collect(_, _)
Collect(pairs, m) ==
    IF pairs = <<>> THEN m
    ELSE LET k == pairs[1][1]
             v == pairs[1][2]
         IN Collect(Tail(pairs),
                    [a \in (DOMAIN m) \cup {k} |-> IF a = k THEN v ELSE m[a]])

(***************************************************************************)
(* ProductionStats                                                         *)
(***************************************************************************)
ProductionStats(success, failure) ==
    [block_success_count |-> success, block_failure_count |-> failure]

SaturatingAdd(a, b) == Min(U64_MAX, a + b)

\* a variant of extend whose additions wrap instead of saturating
ExtendWrapping(self, arg) ==
    ProductionStats(
        (self.block_success_count + arg.block_success_count) % (U64_MAX + 1),
        (self.block_failure_count + arg.block_failure_count) % (U64_MAX + 1))

\* ProductionStats::extend: the value of self after the call
Extend(self, arg) ==
    ProductionStats(
        SaturatingAdd(self.block_success_count, arg.block_success_count),
        SaturatingAdd(self.block_failure_count, arg.block_failure_count))

\* self.block_success_count + self.block_failure_count, an unguarded u64
\* addition: when the sum does not fit, a build with overflow checks panics and
\* a build without them wraps
OpportunitiesCount(self) ==
    IF self.block_success_count + self.block_failure_count <= U64_MAX
    THEN {[panic |-> FALSE,
           value |-> self.block_success_count + self.block_failure_count]}
    ELSE {[panic |-> TRUE, value |-> 0],
          [panic |-> FALSE,
           value |-> (self.block_success_count + self.block_failure_count)
                         % (U64_MAX + 1)]}

\* Ratio<u64>: <<numer, denom>>, denom # 0; the comparison is exact
RatioLe(r1, r2) == r1[1] * r2[2] <= r2[1] * r1[2]

\* ProductionStats::is_satisfying: the outcomes a call can have, "true",
\* "false" or "panic"
is_satisfying(self, max_miss_ratio) ==
    {IF opportunities_count.panic THEN "panic"
     ELSE IF opportunities_count.value = 0 THEN "true"
     ELSE IF RatioLe(<<self.block_failure_count, opportunities_count.value>>,
                     max_miss_ratio)
          THEN "true" ELSE "false" :
        opportunities_count \in OpportunitiesCount(self)}

(***************************************************************************)
(* CycleInfoHashComputer                                                   *)
(***************************************************************************)
BoolAsU64(b) == IF b THEN 1 ELSE 0

CycleHashBuffer(cycle) == U64VarIntSerialize(cycle)
compute_cycle_hash(cycle) == HashComputeFrom(CycleHashBuffer(cycle))

CompleteHashBuffer(complete) == U64VarIntSerialize(BoolAsU64(complete))
compute_complete_hash(complete) == HashComputeFrom(CompleteHashBuffer(complete))

SeedHashBuffer(seed) == BitVecSerialize(seed)
compute_seed_hash(seed) == HashComputeFrom(SeedHashBuffer(seed))

RollEntryHashBuffer(address, roll_count) ==
    AddressSerialize(address) \o U64VarIntSerialize(roll_count)
compute_roll_entry_hash(address, roll_count) ==
    HashComputeFrom(RollEntryHashBuffer(address, roll_count))

\* a variant of the entry buffer with the two counters exchanged
ProdStatsEntryHashBufferSwapped(address, prod_stats) ==
    AddressSerialize(address)
        \o U64VarIntSerialize(prod_stats.block_failure_count)
        \o U64VarIntSerialize(prod_stats.block_success_count)

ProdStatsEntryHashBuffer(address, prod_stats) ==
    AddressSerialize(address)
        \o U64VarIntSerialize(prod_stats.block_success_count)
        \o U64VarIntSerialize(prod_stats.block_failure_count)
compute_prod_stats_entry_hash(address, prod_stats) ==
    HashComputeFrom(ProdStatsEntryHashBuffer(address, prod_stats))

(***************************************************************************)
(* CycleInfo::new_with_hash                                                *)
(***************************************************************************)
CYCLE_INFO_HASH_INITIAL_BYTES == [i \in 1..HASH_SIZE_BYTES |-> 0]

\* for (addr, &count) in &roll_counts { roll_counts_hash ^= ... }
RECURSIVE FoldRollEntries(_, _, _)
FoldRollEntries(hash, order, roll_counts) ==
    IF order = <<>> THEN hash
    ELSE FoldRollEntries(
             HashXor(hash, compute_roll_entry_hash(order[1], roll_counts[order[1]])),
             Tail(order), roll_counts)

\* for (addr, prod_stats) in &production_stats { production_stats_hash ^= ... }
RECURSIVE FoldProdStatsEntries(_, _, _)
FoldProdStatsEntries(hash, order, production_stats) ==
    IF order = <<>> THEN hash
    ELSE FoldProdStatsEntries(
             HashXor(hash,
                     compute_prod_stats_entry_hash(order[1], production_stats[order[1]])),
             Tail(order), production_stats)

\* a variant of the roll-count aggregate whose accumulator starts from 0xFF bytes
RollCountsHashFromOnes(roll_counts) ==
    FoldRollEntries([i \in 1..HASH_SIZE_BYTES |-> 255],
                    SortedKeys(DOMAIN roll_counts), roll_counts)

\* a variant of the roll-count aggregate that leaves out the last entry
RollCountsHashSkipLast(roll_counts) ==
    FoldRollEntries(HashFromBytes(CYCLE_INFO_HASH_INITIAL_BYTES),
                    Take(SortedKeys(DOMAIN roll_counts),
                         Cardinality(DOMAIN roll_counts) - 1),
                    roll_counts)

RollCountsHash(roll_counts) ==
    FoldRollEntries(HashFromBytes(CYCLE_INFO_HASH_INITIAL_BYTES),
                    SortedKeys(DOMAIN roll_counts), roll_counts)

\* a variant of the production-stats aggregate that chains the entry hashes
\* (each step hashes the aggregate so far together with the entry)
RECURSIVE ChainProdStatsEntries(_, _, _)
ChainProdStatsEntries(hash, order, production_stats) ==
    IF order = <<>> THEN hash
    ELSE ChainProdStatsEntries(
             HashComputeFrom(
                 HashToBytes(hash)
                     \o ProdStatsEntryHashBuffer(order[1], production_stats[order[1]])),
             Tail(order), production_stats)

ProductionStatsHashChained(production_stats, stats_order) ==
    ChainProdStatsEntries(HashFromBytes(CYCLE_INFO_HASH_INITIAL_BYTES),
                          stats_order, production_stats)

ProductionStatsHash(production_stats, stats_order) ==
    FoldProdStatsEntries(HashFromBytes(CYCLE_INFO_HASH_INITIAL_BYTES),
                         stats_order, production_stats)

\* a variant of the concatenation with the two aggregate hashes exchanged
HashConcatSwapped(cycle, complete, rng_seed, roll_counts_hash, production_stats_hash) ==
    HashToBytes(compute_cycle_hash(cycle))
        \o HashToBytes(compute_complete_hash(complete))
        \o HashToBytes(compute_seed_hash(rng_seed))
        \o HashToBytes(production_stats_hash)
        \o HashToBytes(roll_counts_hash)

HashConcat(cycle, complete, rng_seed, roll_counts_hash, production_stats_hash) ==
    HashToBytes(compute_cycle_hash(cycle))
        \o HashToBytes(compute_complete_hash(complete))
        \o HashToBytes(compute_seed_hash(rng_seed))
        \o HashToBytes(roll_counts_hash)
        \o HashToBytes(production_stats_hash)

\* the CycleInfo value new_with_hash returns, given the two aggregate hashes
CycleInfoValue(cycle, complete, roll_counts, rng_seed, production_stats, roll_counts_hash, production_stats_hash) ==
    [cycle |-> cycle,
     complete |-> complete,
     roll_counts |-> roll_counts,
     rng_seed |-> rng_seed,
     production_stats |-> production_stats,
     roll_counts_hash |-> roll_counts_hash,
     production_stats_hash |-> production_stats_hash,
     cycle_global_hash |->
         HashComputeFrom(HashConcat(cycle, complete, rng_seed,
                                    roll_counts_hash, production_stats_hash)),
     final_state_hash_snapshot |-> None]

\* stats_order: the order in which production_stats iterates
new_with_hash(cycle, complete, roll_counts, rng_seed, production_stats, stats_order) ==
    CycleInfoValue(cycle, complete, roll_counts, rng_seed, production_stats,
                   RollCountsHash(roll_counts),
                   ProductionStatsHash(production_stats, stats_order))

(***************************************************************************)
(* Serializers                                                             *)
(***************************************************************************)
RECURSIVE SerializeRollEntries(_, _)
SerializeRollEntries(order, roll_counts) ==
    IF order = <<>> THEN <<>>
    ELSE AddressSerialize(order[1]) \o U64VarIntSerialize(roll_counts[order[1]])
             \o SerializeRollEntries(Tail(order), roll_counts)

RECURSIVE SerializeProdStatsEntries(_, _)
SerializeProdStatsEntries(order, value) ==
    IF order = <<>> THEN <<>>
    ELSE AddressSerialize(order[1])
             \o U64VarIntSerialize(value[order[1]].block_success_count)
             \o U64VarIntSerialize(value[order[1]].block_failure_count)
             \o SerializeProdStatsEntries(Tail(order), value)

\* ProductionStatsSerializer::serialize; order: the order in which value iterates
ProductionStatsSerialize(value, order) ==
    U64VarIntSerialize(Cardinality(DOMAIN value)) \o SerializeProdStatsEntries(order, value)

RollCountsSerialize(roll_counts) ==
    U64VarIntSerialize(Cardinality(DOMAIN roll_counts))
        \o SerializeRollEntries(SortedKeys(DOMAIN roll_counts), roll_counts)

BoolAsU8(b) == IF b THEN 1 ELSE 0

\* CycleInfoSerializer::serialize
CycleInfoSerialize(value, stats_order) ==
    U64VarIntSerialize(value.cycle)
        \o <<BoolAsU8(value.complete)>>
        \o RollCountsSerialize(value.roll_counts)
        \o BitVecSerialize(value.rng_seed)
        \o ProductionStatsSerialize(value.production_stats, stats_order)
        \o OptionHashSerialize(value.final_state_hash_snapshot)

\* CycleHistorySerializer::serialize; orders[i]: the iteration order of the
\* production_stats of the i-th cycle
RECURSIVE SerializeCycleInfos(_, _)
SerializeCycleInfos(value, orders) ==
    IF value = <<>> THEN <<>>
    ELSE CycleInfoSerialize(value[1], orders[1])
             \o SerializeCycleInfos(Tail(value), Tail(orders))

CycleHistorySerialize(value, orders) ==
    U64VarIntSerialize(Len(value)) \o SerializeCycleInfos(value, orders)

(***************************************************************************)
(* Deserializers.  context(label, parser) adds its label to the error of a *)
(* failing parser: an error is the stack of labels, innermost first.       *)
(***************************************************************************)
Context(label, r) == IF r.ok THEN r ELSE Err(Append(r.err, label))

\* a variant that takes every byte other than 0 as true
CompleteDeserializeLenient(buf) ==
    IF Len(buf) >= 1 /\ buf[1] = 0 THEN Ok(FALSE, Tail(buf))
    ELSE IF Len(buf) >= 1 THEN Ok(TRUE, Tail(buf))
    ELSE Err(<<"tag">>)

\* alt((value(true, tag(&[1])), value(false, tag(&[0]))))
CompleteDeserialize(buf) ==
    IF Len(buf) >= 1 /\ buf[1] = 1 THEN Ok(TRUE, Tail(buf))
    ELSE IF Len(buf) >= 1 /\ buf[1] = 0 THEN Ok(FALSE, Tail(buf))
    ELSE Err(<<"tag">>)

\* one (address, roll_count) element of RollsDeserializer
RollEntryDeserialize(buf) ==
    AndThen(Context("Failed address deserialization", AddressDeserialize(buf)),
    LAMBDA a :
    AndThen(Context("Failed number deserialization",
                    U64VarIntDeserialize(a.rest, 0, U64_MAX)),
    LAMBDA n : Ok(<<a.value, n.value>>, n.rest)))

\* the element loop of nom's length_count: count elements, the first failure
\* ends it
RECURSIVE RollEntriesDeserialize(_, _, _)
RollEntriesDeserialize(buf, count, res) ==
    IF count = 0 THEN Ok(res, buf)
    ELSE AndThen(Context("count", RollEntryDeserialize(buf)),
                 LAMBDA e : RollEntriesDeserialize(e.rest, count - 1,
                                                   Append(res, e.value)))

\* a variant whose length bound is one too large
RollsDeserializeLoose(buf, max_rolls_length) ==
    Context("Failed rolls deserialization",
        AndThen(Context("Failed length deserialization",
                        U64VarIntDeserialize(buf, 0, max_rolls_length + 1)),
                LAMBDA len : RollEntriesDeserialize(len.rest, len.value, <<>>)))

\* RollsDeserializer::deserialize
RollsDeserialize(buf, max_rolls_length) ==
    Context("Failed rolls deserialization",
        AndThen(Context("Failed length deserialization",
                        U64VarIntDeserialize(buf, 0, max_rolls_length)),
                LAMBDA len : RollEntriesDeserialize(len.rest, len.value, <<>>)))

\* one (address, success, failure) element of ProductionStatsDeserializer
ProdStatsEntryDeserialize(buf) ==
    AndThen(Context("Failed address deserialization", AddressDeserialize(buf)),
    LAMBDA a :
    AndThen(Context("Failed block_success_count deserialization",
                    U64VarIntDeserialize(a.rest, 0, U64_MAX)),
    LAMBDA s :
    AndThen(Context("Failed block_failure_count deserialization",
                    U64VarIntDeserialize(s.rest, 0, U64_MAX)),
    LAMBDA f : Ok(<<a.value, ProductionStats(s.value, f.value)>>, f.rest))))

RECURSIVE ProdStatsEntriesDeserialize(_, _, _)
ProdStatsEntriesDeserialize(buf, count, res) ==
    IF count = 0 THEN Ok(res, buf)
    ELSE AndThen(Context("count", ProdStatsEntryDeserialize(buf)),
                 LAMBDA e : ProdStatsEntriesDeserialize(e.rest, count - 1,
                                                        Append(res, e.value)))

\* ProductionStatsDeserializer::deserialize
ProductionStatsDeserialize(buf, max_production_stats_length) ==
    Context("Failed ProductionStats deserialization",
        AndThen(Context("Failed length deserialization",
                        U64VarIntDeserialize(buf, 0, max_production_stats_length)),
        LAMBDA len :
        AndThen(ProdStatsEntriesDeserialize(len.rest, len.value, <<>>),
        LAMBDA elements : Ok(Collect(elements.value, EmptyMap), elements.rest))))

\* the tuple of field parsers of CycleInfoDeserializer::deserialize
CycleInfoFieldsDeserialize(buf, max_rolls_length, max_production_stats_length) ==
    AndThen(Context("cycle", U64VarIntDeserialize(buf, 0, U64_MAX)),
    LAMBDA cycle :
    AndThen(Context("complete", CompleteDeserialize(cycle.rest)),
    LAMBDA complete :
    AndThen(Context("roll_counts", RollsDeserialize(complete.rest, max_rolls_length)),
    LAMBDA roll_counts :
    AndThen(Context("rng_seed", BitVecDeserialize(roll_counts.rest)),
    LAMBDA rng_seed :
    AndThen(Context("production_stats",
                    ProductionStatsDeserialize(rng_seed.rest,
                                               max_production_stats_length)),
    LAMBDA production_stats :
    AndThen(Context("final_state_hash_snapshot",
                    OptionHashDeserialize(production_stats.rest)),
    LAMBDA opt_hash :
        Ok([cycle |-> cycle.value,
            complete |-> complete.value,
            roll_counts |-> roll_counts.value,
            rng_seed |-> rng_seed.value,
            production_stats |-> production_stats.value,
            opt_hash |-> opt_hash.value],
           opt_hash.rest)))))))

\* a variant that leaves the snapshot as new_with_hash returns it
CycleInfoFromFieldsNoSnapshot(f, stats_order) ==
    new_with_hash(f.cycle, f.complete, Collect(f.roll_counts, EmptyMap),
                  f.rng_seed, f.production_stats, stats_order)

\* the closure given to map(): new_with_hash over the decoded fields, then the
\* snapshot is set
CycleInfoFromFields(f, stats_order) ==
    [new_with_hash(f.cycle, f.complete, Collect(f.roll_counts, EmptyMap),
                   f.rng_seed, f.production_stats, stats_order)
        EXCEPT !.final_state_hash_snapshot = f.opt_hash]

\* the order in which the decoded production_stats iterates in new_with_hash:
\* by ascending address when ascending, by descending address otherwise
Reverse(s) == [i \in 1..Len(s) |-> s[Len(s) + 1 - i]]

DecodedStatsOrder(production_stats, ascending) ==
    IF ascending THEN SortedKeys(DOMAIN production_stats)
    ELSE Reverse(SortedKeys(DOMAIN production_stats))

\* CycleInfoDeserializer::deserialize
CycleInfoDeserialize(buf, max_rolls_length, max_production_stats_length, ascending) ==
    AndThen(Context("cycle_history",
                    CycleInfoFieldsDeserialize(buf, max_rolls_length,
                                               max_production_stats_length)),
            LAMBDA fields :
                Ok(CycleInfoFromFields(
                       fields.value,
                       DecodedStatsOrder(fields.value.production_stats, ascending)),
                   fields.rest))

\* the element loop of nom's length_count in CycleHistoryDeserializer
RECURSIVE CycleInfosDeserialize(_, _, _, _, _, _)
CycleInfosDeserialize(buf, count, res, max_rolls_length, max_production_stats_length, ascending) ==
    IF count = 0 THEN Ok(res, buf)
    ELSE AndThen(Context("count",
                     Context("Failed cycle_info deserialization",
                         CycleInfoDeserialize(buf, max_rolls_length,
                                              max_production_stats_length, ascending))),
                 LAMBDA e :
                     CycleInfosDeserialize(e.rest, count - 1, Append(res, e.value),
                                           max_rolls_length,
                                           max_production_stats_length, ascending))

\* CycleHistoryDeserializer::deserialize
CycleHistoryDeserialize(buf, max_cycle_history_length, max_rolls_length, max_production_stats_length, ascending) ==
    Context("Failed cycle_history deserialization",
        AndThen(Context("Failed length deserialization",
                        U64VarIntDeserialize(buf, 0, max_cycle_history_length)),
                LAMBDA len :
                    CycleInfosDeserialize(len.rest, len.value, <<>>, max_rolls_length,
                                          max_production_stats_length, ascending)))

(***************************************************************************)
(* Inputs                                                                  *)
(***************************************************************************)
CycleValues == {0, U64_MAX}
RollValues == {1, U64_MAX}
StatsValues == {ProductionStats(0, 0), ProductionStats(1, U64_MAX)}

MapsOver(keys, values) == UNION {[S -> values] : S \in SUBSET keys}
RollMaps == MapsOver(Addresses, RollValues)
StatsMaps == MapsOver(Addresses, StatsValues)

\* bit sequences of length 0, 1 and MaxSeedBits
Seeds == {[k \in 1..n |-> (k + p) % 2] : n \in {0, 1, MaxSeedBits}, p \in {0, 1}}

SnapshotHashes == {HashComputeFrom(<<1, 2, 3>>)}

\* the byte values a corrupted byte takes
CorruptBytes == {0, 1, MaxRollsLength + 1, 255}

\* the mappings holding every address
FullRollMap == [a \in Addresses |-> IF a % 2 = 1 THEN U64_MAX ELSE 1]
FullStatsMap == [a \in Addresses |-> ProductionStats(a, U64_MAX)]

\* the values whose encodings are also damaged on the way to the decoder
IsWireSample(ci) ==
    /\ ci.roll_counts \in {EmptyMap, FullRollMap}
    /\ ci.production_stats \in {EmptyMap, [a \in Addresses |-> ProductionStats(1, U64_MAX)]}
    /\ Len(ci.rng_seed) \in {0, MaxSeedBits}
    /\ Len(ci.rng_seed) > 0 => ci.rng_seed[1] = 1

NoCycleInfo == [none |-> TRUE]
NotRun == [none |-> TRUE]

Init ==
    /\ pc = "start"
    /\ cycle_info = NoCycleInfo
    /\ buffer = <<>>
    /\ decoded = NotRun
    /\ history = <<>>
    /\ history_buffer = <<>>
    /\ history_decoded = NotRun
    /\ other_info = NoCycleInfo
    /\ iter_orders = <<>>
    /\ roll_map = EmptyMap
    /\ roll_aggregate = HashFromBytes(CYCLE_INFO_HASH_INITIAL_BYTES)
    /\ roll_ops = <<>>
    /\ stats = ProductionStats(0, 0)
    /\ stats_arg = NotRun
    /\ stats_prev = ProductionStats(0, 0)
    /\ satisfying = NotRun
    /\ extends = 0

(***************************************************************************)
(* The codec: a CycleInfo is built, written, possibly damaged on the way,  *)
(* and decoded.                                                            *)
(***************************************************************************)
NewWithHash ==
    /\ pc = "start"
    /\ \E cycle \in CycleValues, complete \in BOOLEAN, roll_counts \in RollMaps,
          rng_seed \in Seeds, production_stats \in StatsMaps :
          \E stats_order \in IterOrders(production_stats) :
             cycle_info' = new_with_hash(cycle, complete, roll_counts, rng_seed,
                                         production_stats, stats_order)
    /\ pc' = "built"
    /\ UNCHANGED <<buffer, decoded, history, history_buffer, history_decoded>>
    /\ UNCHANGED <<hash_vars, stats_vars>>

\* cycle.final_state_hash_snapshot = Some(hash), set by the owner of the value
SetFinalStateHashSnapshot ==
    /\ pc = "built"
    /\ cycle_info.final_state_hash_snapshot = None
    /\ \E h \in SnapshotHashes :
          cycle_info' = [cycle_info EXCEPT !.final_state_hash_snapshot = Some(h)]
    /\ UNCHANGED <<buffer, decoded, history, history_buffer, history_decoded, pc>>
    /\ UNCHANGED <<hash_vars, stats_vars>>

Serialize ==
    /\ pc = "built"
    /\ \E stats_order \in IterOrders(cycle_info.production_stats) :
          buffer' = CycleInfoSerialize(cycle_info, stats_order)
    /\ pc' = "written"
    /\ UNCHANGED <<cycle_info, decoded, history, history_buffer, history_decoded>>
    /\ UNCHANGED <<hash_vars, stats_vars>>

\* the buffer reaches the decoder cut short
Truncate ==
    /\ pc = "written"
    /\ IsWireSample(cycle_info)
    /\ \E n \in 0..(Len(buffer) - 1) : buffer' = Take(buffer, n)
    /\ pc' = "damaged"
    /\ UNCHANGED <<cycle_info, decoded, history, history_buffer, history_decoded>>
    /\ UNCHANGED <<hash_vars, stats_vars>>

\* the buffer reaches the decoder with one byte changed
Corrupt ==
    /\ pc = "written"
    /\ IsWireSample(cycle_info)
    /\ \E i \in 1..Len(buffer), b \in CorruptBytes :
          /\ buffer[i] # b
          /\ buffer' = [buffer EXCEPT ![i] = b]
    /\ pc' = "damaged"
    /\ UNCHANGED <<cycle_info, decoded, history, history_buffer, history_decoded>>
    /\ UNCHANGED <<hash_vars, stats_vars>>

Deserialize ==
    /\ pc \in {"written", "damaged"}
    /\ \E ascending \in BOOLEAN :
          decoded' = CycleInfoDeserialize(buffer, MaxRollsLength,
                                          MaxProductionStatsLength, ascending)
    /\ pc' = IF pc = "written" THEN "decoded" ELSE "decoded_damaged"
    /\ UNCHANGED <<cycle_info, buffer, history, history_buffer, history_decoded>>
    /\ UNCHANGED <<hash_vars, stats_vars>>

(***************************************************************************)
(* The cycle history: a sequence of CycleInfo is written, possibly damaged *)
(* on the way, and decoded.                                                *)
(***************************************************************************)
\* the order in which new_with_hash and the serializer iterate a sample's stats
SampleOrder(production_stats) == SortedKeys(DOMAIN production_stats)

HistoryInfos ==
    {new_with_hash(cycle, complete, roll_counts, <<>>, production_stats,
                   SampleOrder(production_stats)) :
        cycle \in CycleValues, complete \in {FALSE},
        roll_counts \in {FullRollMap}, production_stats \in {EmptyMap, FullStatsMap}}

Histories == UNION {[1..n -> HistoryInfos] : n \in 0..MaxCycleHistoryLength}

BuildHistory ==
    /\ pc = "start"
    /\ history' \in Histories
    /\ pc' = "history_built"
    /\ UNCHANGED <<cycle_info, buffer, decoded, history_buffer, history_decoded>>
    /\ UNCHANGED <<hash_vars, stats_vars>>

SerializeHistory ==
    /\ pc = "history_built"
    /\ history_buffer' =
           CycleHistorySerialize(
               history, [i \in 1..Len(history) |-> SampleOrder(history[i].production_stats)])
    /\ pc' = "history_written"
    /\ UNCHANGED <<cycle_info, buffer, decoded, history, history_decoded>>
    /\ UNCHANGED <<hash_vars, stats_vars>>

TruncateHistory ==
    /\ pc = "history_written"
    /\ \E n \in 0..(Len(history_buffer) - 1) : history_buffer' = Take(history_buffer, n)
    /\ pc' = "history_damaged"
    /\ UNCHANGED <<cycle_info, buffer, decoded, history, history_decoded>>
    /\ UNCHANGED <<hash_vars, stats_vars>>

CorruptHistory ==
    /\ pc = "history_written"
    /\ \E i \in 1..Len(history_buffer), b \in CorruptBytes :
          /\ history_buffer[i] # b
          /\ history_buffer' = [history_buffer EXCEPT ![i] = b]
    /\ pc' = "history_damaged"
    /\ UNCHANGED <<cycle_info, buffer, decoded, history, history_decoded>>
    /\ UNCHANGED <<hash_vars, stats_vars>>

DeserializeHistory ==
    /\ pc \in {"history_written", "history_damaged"}
    /\ \E ascending \in BOOLEAN :
          history_decoded' =
              CycleHistoryDeserialize(history_buffer, MaxCycleHistoryLength,
                                      MaxRollsLength, MaxProductionStatsLength, ascending)
    /\ pc' = IF pc = "history_written" THEN "history_decoded"
                                       ELSE "history_decoded_damaged"
    /\ UNCHANGED <<cycle_info, buffer, decoded, history, history_buffer>>
    /\ UNCHANGED <<hash_vars, stats_vars>>

CodecNext ==
    \/ NewWithHash
    \/ SetFinalStateHashSnapshot
    \/ Serialize
    \/ Truncate
    \/ Corrupt
    \/ Deserialize
    \/ BuildHistory
    \/ SerializeHistory
    \/ TruncateHistory
    \/ CorruptHistory
    \/ DeserializeHistory

SpecCodec == Init /\ [][CodecNext]_vars

(***************************************************************************)
(* Hashing: two CycleInfo built from the same entries, and a roll-count    *)
(* mapping whose aggregate hash is kept up to date entry by entry.         *)
(***************************************************************************)
\* two calls of new_with_hash on the same data; the two production_stats
\* mappings hold the same entries and iterate in their own orders
NewWithHashTwice ==
    /\ pc = "start"
    /\ \E cycle \in CycleValues, complete \in BOOLEAN, roll_counts \in RollMaps,
          rng_seed \in Seeds, production_stats \in StatsMaps :
          \E order1 \in IterOrders(production_stats),
             order2 \in IterOrders(production_stats) :
             /\ cycle_info' = new_with_hash(cycle, complete, roll_counts, rng_seed,
                                            production_stats, order1)
             /\ other_info' = new_with_hash(cycle, complete, roll_counts, rng_seed,
                                            production_stats, order2)
             /\ iter_orders' = <<order1, order2>>
    /\ pc' = "hashed"
    /\ UNCHANGED <<buffer, decoded, history, history_buffer, history_decoded>>
    /\ UNCHANGED <<roll_map, roll_aggregate, roll_ops, stats_vars>>

\* a roll-count mapping and the roll_counts_hash new_with_hash gives it
StartRolls ==
    /\ pc = "start"
    /\ \E roll_counts \in RollMaps :
          /\ roll_map' = roll_counts
          /\ roll_aggregate' =
                 new_with_hash(0, FALSE, roll_counts, <<>>, EmptyMap, <<>>).roll_counts_hash
    /\ pc' = "rolls"
    /\ UNCHANGED <<codec_vars, other_info, iter_orders, roll_ops, stats_vars>>

RollOp(op, address, count) ==
    [op |-> op, address |-> address, count |-> count, before |-> roll_aggregate]

Logged(op) == IF roll_ops = <<>> THEN <<op>> ELSE <<op, roll_ops[1]>>

\* adding an entry: aggregate ^= hash(entry)
AddRoll ==
    /\ pc = "rolls"
    /\ \E address \in Addresses \ DOMAIN roll_map, count \in RollValues :
          /\ roll_map' = [a \in (DOMAIN roll_map) \cup {address} |->
                             IF a = address THEN count ELSE roll_map[a]]
          /\ roll_aggregate' =
                 HashXor(roll_aggregate, compute_roll_entry_hash(address, count))
          /\ roll_ops' = Logged(RollOp("add", address, count))
    /\ UNCHANGED <<codec_vars, other_info, iter_orders, stats_vars, pc>>

\* removing an entry: aggregate ^= hash(old entry)
RemoveRoll ==
    /\ pc = "rolls"
    /\ \E address \in DOMAIN roll_map :
          /\ roll_map' = [a \in (DOMAIN roll_map) \ {address} |-> roll_map[a]]
          /\ roll_aggregate' =
                 HashXor(roll_aggregate,
                         compute_roll_entry_hash(address, roll_map[address]))
          /\ roll_ops' = Logged(RollOp("remove", address, roll_map[address]))
    /\ UNCHANGED <<codec_vars, other_info, iter_orders, stats_vars, pc>>

\* replacing an entry: aggregate ^= hash(old entry), then aggregate ^= hash(new entry)
ReplaceRoll ==
    /\ pc = "rolls"
    /\ \E address \in DOMAIN roll_map, count \in RollValues :
          /\ roll_map' = [roll_map EXCEPT ![address] = count]
          /\ roll_aggregate' =
                 HashXor(HashXor(roll_aggregate,
                                 compute_roll_entry_hash(address, roll_map[address])),
                         compute_roll_entry_hash(address, count))
          /\ roll_ops' = Logged(RollOp("replace", address, count))
    /\ UNCHANGED <<codec_vars, other_info, iter_orders, stats_vars, pc>>

HashNext ==
    \/ NewWithHashTwice
    \/ StartRolls
    \/ AddRoll
    \/ RemoveRoll
    \/ ReplaceRoll

SpecHash == Init /\ [][HashNext]_vars

(***************************************************************************)
(* ProductionStats: extend and is_satisfying.                              *)
(***************************************************************************)
\* the largest number of extend calls made on one value
MaxExtends == 2

CounterValues == {0, 1, 9, U64_MAX - 1, U64_MAX}
StatsInputs == {ProductionStats(s, f) : s \in CounterValues, f \in CounterValues}
Ratios == {<<0, 1>>, <<1, 2>>, <<1, 1>>}

StartStats ==
    /\ pc = "start"
    /\ stats' \in StatsInputs
    /\ pc' = "stats"
    /\ UNCHANGED <<codec_vars, hash_vars, stats_arg, stats_prev, satisfying, extends>>

\* self.extend(&arg): arg is borrowed immutably
ExtendStats ==
    /\ pc = "stats"
    /\ extends < MaxExtends
    /\ \E arg \in StatsInputs :
          /\ stats' = Extend(stats, arg)
          /\ stats_arg' = [before |-> arg, after |-> arg]
    /\ stats_prev' = stats
    /\ extends' = extends + 1
    /\ satisfying' = NotRun
    /\ UNCHANGED <<codec_vars, hash_vars, pc>>

IsSatisfying ==
    /\ pc = "stats"
    /\ satisfying = NotRun
    /\ \E max_miss_ratio \in Ratios :
          \E outcome \in is_satisfying(stats, max_miss_ratio) :
             satisfying' = [max_miss_ratio |-> max_miss_ratio, outcome |-> outcome]
    /\ UNCHANGED <<codec_vars, hash_vars, stats, stats_arg, stats_prev, extends, pc>>

StatsNext ==
    \/ StartStats
    \/ ExtendStats
    \/ IsSatisfying

SpecStats == Init /\ [][StatsNext]_vars

(***************************************************************************)
(* Properties                                                              *)
(***************************************************************************)
\* the XOR of the hashes f[k], k in DOMAIN f, taken in no particular order
RECURSIVE XorAll(_)
XorAll(f) ==
    IF DOMAIN f = {} THEN [i \in 1..HASH_SIZE_BYTES |-> 0]
    ELSE LET k == CHOOSE x \in DOMAIN f : TRUE
         IN HashXor(f[k], XorAll([x \in (DOMAIN f) \ {k} |-> f[x]]))

RollEntryHashes(roll_counts) ==
    [a \in DOMAIN roll_counts |->
        HashComputeFrom(AddressSerialize(a) \o U64VarIntSerialize(roll_counts[a]))]

ProdStatsEntryHashes(production_stats) ==
    [a \in DOMAIN production_stats |->
        HashComputeFrom(AddressSerialize(a)
            \o U64VarIntSerialize(production_stats[a].block_success_count)
            \o U64VarIntSerialize(production_stats[a].block_failure_count))]

Size(m) == Cardinality(DOMAIN m)

\* C1: for every CycleInfo whose roll_counts and production_stats sizes are
\* within the decoder's maxima, with or without a snapshot, decoding the bytes
\* the serializer wrote for it succeeds, consumes the whole buffer and gives
\* back a value equal to it in every field.
C1_RoundTrip ==
    (/\ pc = "decoded"
     /\ Size(cycle_info.roll_counts) <= MaxRollsLength
     /\ Size(cycle_info.production_stats) <= MaxProductionStatsLength)
    => /\ decoded.ok
       /\ decoded.rest = <<>>
       /\ decoded.value.cycle = cycle_info.cycle
       /\ decoded.value.complete = cycle_info.complete
       /\ decoded.value.roll_counts = cycle_info.roll_counts
       /\ decoded.value.rng_seed = cycle_info.rng_seed
       /\ decoded.value.production_stats = cycle_info.production_stats
       /\ decoded.value.roll_counts_hash = cycle_info.roll_counts_hash
       /\ decoded.value.production_stats_hash = cycle_info.production_stats_hash
       /\ decoded.value.cycle_global_hash = cycle_info.cycle_global_hash
       /\ decoded.value.final_state_hash_snapshot = cycle_info.final_state_hash_snapshot
       /\ decoded.value = cycle_info

C1_Witness ==
    /\ pc = "decoded"
    /\ decoded.ok
    /\ cycle_info.cycle = U64_MAX
    /\ cycle_info.complete
    /\ Size(cycle_info.roll_counts) = MaxRollsLength
    /\ Size(cycle_info.production_stats) = MaxProductionStatsLength
    /\ Len(cycle_info.rng_seed) = MaxSeedBits
    /\ cycle_info.final_state_hash_snapshot # None

\* the three hashes of ci agree with its own data
C2_Consistent(ci) ==
    /\ ci.roll_counts_hash = XorAll(RollEntryHashes(ci.roll_counts))
    /\ ci.production_stats_hash = XorAll(ProdStatsEntryHashes(ci.production_stats))
    /\ ci.cycle_global_hash =
           HashComputeFrom(
               HashComputeFrom(U64VarIntSerialize(ci.cycle))
                   \o HashComputeFrom(U64VarIntSerialize(IF ci.complete THEN 1 ELSE 0))
                   \o HashComputeFrom(BitVecSerialize(ci.rng_seed))
                   \o ci.roll_counts_hash
                   \o ci.production_stats_hash)

\* C2: every CycleInfo that new_with_hash or a decoder produces has its
\* roll_counts_hash, production_stats_hash and cycle_global_hash derived from
\* its own data, whatever bytes the decoder was given.
C2_HashesConsistent ==
    /\ "cycle" \in DOMAIN cycle_info => C2_Consistent(cycle_info)
    /\ "value" \in DOMAIN decoded => C2_Consistent(decoded.value)
    /\ "value" \in DOMAIN history_decoded =>
           \A i \in 1..Len(history_decoded.value) :
               C2_Consistent(history_decoded.value[i])

C2_Witness ==
    /\ pc = "decoded_damaged"
    /\ decoded.ok
    /\ decoded.value.roll_counts # cycle_info.roll_counts
    /\ decoded.value.roll_counts_hash # cycle_info.roll_counts_hash
    /\ decoded.value.final_state_hash_snapshot = cycle_info.final_state_hash_snapshot
    /\ Size(decoded.value.roll_counts) = MaxRollsLength

\* the bytes of buf from the roll_counts length prefix on
C3_RollsSection(buf) ==
    AndThen(U64VarIntDeserialize(buf, 0, U64_MAX),
    LAMBDA c : AndThen(CompleteDeserialize(c.rest), LAMBDA b : Ok(b.rest, <<>>)))

\* the bytes of buf from the production_stats length prefix on
C3_StatsSection(buf) ==
    AndThen(C3_RollsSection(buf),
    LAMBDA s : AndThen(RollsDeserialize(s.value, MaxRollsLength),
    LAMBDA r : AndThen(BitVecDeserialize(r.rest), LAMBDA b : Ok(b.rest, <<>>))))

\* the length a section declares, whatever its size
C3_Declared(section) == VarIntDecode(section.value, 1, 0, 1)

\* the error of a length prefix out of range, under the given labels
C3_LengthError(labels) ==
    Err(<<"varint: out of range", "Failed length deserialization">> \o labels)

C3_Bounded(section, max, result, labels) ==
    (section.ok /\ C3_Declared(section).ok) =>
        /\ C3_Declared(section).value > max => result = C3_LengthError(labels)
        /\ C3_Declared(section).value = max => result # C3_LengthError(labels)

\* C3: a collection whose declared length exceeds the decoder's maximum is
\* rejected by the parser of the length prefix, with no element parser run;
\* a declared length equal to the maximum is not rejected for its length.
C3_BoundsEnforcement ==
    /\ pc \in {"decoded", "decoded_damaged"} =>
           /\ C3_Bounded(C3_RollsSection(buffer), MaxRollsLength, decoded,
                         <<"Failed rolls deserialization", "roll_counts",
                           "cycle_history">>)
           /\ C3_Bounded(C3_StatsSection(buffer), MaxProductionStatsLength, decoded,
                         <<"Failed ProductionStats deserialization",
                           "production_stats", "cycle_history">>)
    /\ pc \in {"history_decoded", "history_decoded_damaged"} =>
           C3_Bounded(Ok(history_buffer, <<>>), MaxCycleHistoryLength, history_decoded,
                      <<"Failed cycle_history deserialization">>)

C3_Witness ==
    /\ pc = "decoded_damaged"
    /\ C3_RollsSection(buffer).ok
    /\ C3_Declared(C3_RollsSection(buffer)).ok
    /\ C3_Declared(C3_RollsSection(buffer)).value = MaxRollsLength + 1
    /\ Size(cycle_info.roll_counts) = MaxRollsLength
    /\ ~decoded.ok

\* the label of the first field of buf that fails to decode, "none" if none does
C9_FailingField(buf) ==
    LET cycle == U64VarIntDeserialize(buf, 0, U64_MAX)
    IN IF ~cycle.ok THEN "cycle" ELSE
    LET complete == CompleteDeserialize(cycle.rest)
    IN IF ~complete.ok THEN "complete" ELSE
    LET rolls == RollsDeserialize(complete.rest, MaxRollsLength)
    IN IF ~rolls.ok THEN "roll_counts" ELSE
    LET seed == BitVecDeserialize(rolls.rest)
    IN IF ~seed.ok THEN "rng_seed" ELSE
    LET stats_ == ProductionStatsDeserialize(seed.rest, MaxProductionStatsLength)
    IN IF ~stats_.ok THEN "production_stats" ELSE
    LET snapshot == OptionHashDeserialize(stats_.rest)
    IN IF ~snapshot.ok THEN "final_state_hash_snapshot" ELSE "none"

\* whether the byte of buf that follows a well-formed cycle is neither 0 nor 1
C9_BadCompleteByte(buf) ==
    LET cycle == U64VarIntDeserialize(buf, 0, U64_MAX)
    IN cycle.ok /\ Len(cycle.rest) >= 1 /\ cycle.rest[1] \notin {0, 1}

\* the index of the first of count CycleInfo encodings in buf that fails to
\* decode, 0 if none does
RECURSIVE C9_FailingIndex(_, _, _)
C9_FailingIndex(buf, count, k) ==
    IF k > count THEN 0
    ELSE LET e == CycleInfoDeserialize(buf, MaxRollsLength,
                                       MaxProductionStatsLength, TRUE)
         IN IF ~e.ok THEN k ELSE C9_FailingIndex(e.rest, count, k + 1)

C9_HistoryFailingIndex(buf) ==
    LET len == U64VarIntDeserialize(buf, 0, MaxCycleHistoryLength)
    IN IF ~len.ok THEN 0 ELSE C9_FailingIndex(len.rest, len.value, 1)

\* C9: when a field of a CycleInfo encoding fails to decode (a complete byte
\* other than 0 or 1 among them), the decoder returns an error and no
\* CycleInfo; when the k-th CycleInfo of a history fails to decode, the
\* history decoder returns an error and no list.
C9_AllOrNothing ==
    /\ pc \in {"decoded", "decoded_damaged"} =>
           /\ C9_FailingField(buffer) # "none" =>
                  /\ DOMAIN decoded = {"ok", "err"}
                  /\ ~decoded.ok
                  /\ decoded.err[Len(decoded.err)] = "cycle_history"
                  /\ decoded.err[Len(decoded.err) - 1] = C9_FailingField(buffer)
           /\ C9_BadCompleteByte(buffer) =>
                  decoded = Err(<<"tag", "complete", "cycle_history">>)
    /\ (/\ pc \in {"history_decoded", "history_decoded_damaged"}
        /\ C9_HistoryFailingIndex(history_buffer) # 0)
       => /\ DOMAIN history_decoded = {"ok", "err"}
          /\ ~history_decoded.ok

C9_Witness ==
    /\ pc = "history_decoded_damaged"
    /\ C9_HistoryFailingIndex(history_buffer) = 2
    /\ ~history_decoded.ok

RECURSIVE C10_Concat(_, _)
C10_Concat(order, f) ==
    IF order = <<>> THEN <<>> ELSE f[order[1]] \o C10_Concat(Tail(order), f)

\* the wire bytes of ci, put together from the buffers the hash computer
\* hashes, with production_stats in the given order
C10_WireFromHashBuffers(ci, stats_order) ==
    CycleHashBuffer(ci.cycle)
        \o CompleteHashBuffer(ci.complete)
        \o U64VarIntSerialize(Size(ci.roll_counts))
        \o C10_Concat(SortedKeys(DOMAIN ci.roll_counts),
                      [a \in DOMAIN ci.roll_counts |->
                          RollEntryHashBuffer(a, ci.roll_counts[a])])
        \o SeedHashBuffer(ci.rng_seed)
        \o U64VarIntSerialize(Size(ci.production_stats))
        \o C10_Concat(stats_order,
                      [a \in DOMAIN ci.production_stats |->
                          ProdStatsEntryHashBuffer(a, ci.production_stats[a])])
        \o OptionHashSerialize(ci.final_state_hash_snapshot)

\* C10: the bytes hashed for cycle, complete, rng_seed, a roll entry and a
\* production-stats entry are the bytes the wire codec writes for them; for
\* complete, the varint of (complete as u64) equals the byte u8::from(complete).
C10_HashOfWireBytes ==
    pc = "written" =>
        /\ \E stats_order \in IterOrders(cycle_info.production_stats) :
              buffer = C10_WireFromHashBuffers(cycle_info, stats_order)
        /\ CompleteHashBuffer(cycle_info.complete) = <<BoolAsU8(cycle_info.complete)>>
        /\ compute_complete_hash(cycle_info.complete) =
               HashComputeFrom(<<BoolAsU8(cycle_info.complete)>>)

C10_Witness ==
    /\ pc = "written"
    /\ cycle_info.complete
    /\ cycle_info.cycle = U64_MAX
    /\ Size(cycle_info.roll_counts) = MaxRollsLength
    /\ Size(cycle_info.production_stats) = MaxProductionStatsLength
    /\ Len(cycle_info.rng_seed) = MaxSeedBits

\* the (address, roll_count) entries of buf as they stand on the wire
C11_WireRolls(buf) == RollsDeserialize(C3_RollsSection(buf).value, MaxRollsLength).value

\* the (address, ProductionStats) entries of buf as they stand on the wire
C11_WireStats(buf) ==
    ProdStatsEntriesDeserialize(
        U64VarIntDeserialize(C3_StatsSection(buf).value, 0,
                             MaxProductionStatsLength).rest,
        U64VarIntDeserialize(C3_StatsSection(buf).value, 0,
                             MaxProductionStatsLength).value,
        <<>>).value

C11_Keys(pairs) == {pairs[i][1] : i \in 1..Len(pairs)}

C11_HasDuplicate(pairs) == Cardinality(C11_Keys(pairs)) < Len(pairs)

\* the value of the last pair of address a
C11_Last(pairs, a) ==
    pairs[CHOOSE i \in 1..Len(pairs) :
              /\ pairs[i][1] = a
              /\ \A j \in (i + 1)..Len(pairs) : pairs[j][1] # a][2]

\* the mapping that holds each address of pairs once, with its last value
C11_Dedup(pairs) == [a \in C11_Keys(pairs) |-> C11_Last(pairs, a)]

\* the XOR of the entry hashes of every pair, repeated addresses included
RECURSIVE C11_WireRollsFold(_)
C11_WireRollsFold(pairs) ==
    IF pairs = <<>> THEN [i \in 1..HASH_SIZE_BYTES |-> 0]
    ELSE HashXor(HashComputeFrom(AddressSerialize(pairs[1][1])
                                     \o U64VarIntSerialize(pairs[1][2])),
                 C11_WireRollsFold(Tail(pairs)))

\* value is what the wire entries of buf give once repeated addresses are
\* merged
C11_Merged(buf, value) ==
    /\ Len(C11_WireRolls(buf)) = C3_Declared(C3_RollsSection(buf)).value
    /\ Len(C11_WireStats(buf)) = C3_Declared(C3_StatsSection(buf)).value
    /\ value.roll_counts = C11_Dedup(C11_WireRolls(buf))
    /\ value.production_stats = C11_Dedup(C11_WireStats(buf))
    /\ value.roll_counts_hash =
           XorAll(RollEntryHashes(C11_Dedup(C11_WireRolls(buf))))
    /\ value.production_stats_hash =
           XorAll(ProdStatsEntryHashes(C11_Dedup(C11_WireStats(buf))))
    /\ Size(value.roll_counts) <= MaxRollsLength
    /\ Size(value.production_stats) <= MaxProductionStatsLength
    /\ C11_HasDuplicate(C11_WireRolls(buf)) =>
           Size(value.roll_counts) < C3_Declared(C3_RollsSection(buf)).value
    /\ C11_HasDuplicate(C11_WireStats(buf)) =>
           Size(value.production_stats) < C3_Declared(C3_StatsSection(buf)).value

\* the bytes of a history buffer from its first CycleInfo on
C11_FirstElement(buf) == U64VarIntDeserialize(buf, 0, MaxCycleHistoryLength).rest

\* C11: a buffer whose every field is well formed decodes also when its
\* roll_counts or production_stats section names an address more than once;
\* the decoded mapping holds each address once with the value of its last
\* occurrence on the wire, the aggregate hash is the XOR fold over that
\* mapping and not over the wire entries, and the mapping has fewer entries
\* than the declared length and never more than the maximum.
C11_DuplicateAddresses ==
    /\ (pc \in {"decoded", "decoded_damaged"} /\ C9_FailingField(buffer) = "none")
       => (decoded.ok /\ C11_Merged(buffer, decoded.value))
    /\ (/\ pc \in {"history_decoded", "history_decoded_damaged"}
        /\ "value" \in DOMAIN history_decoded
        /\ history_decoded.value # <<>>)
       => C11_Merged(C11_FirstElement(history_buffer), history_decoded.value[1])

C11_Witness ==
    /\ pc = "decoded_damaged"
    /\ decoded.ok
    /\ C11_HasDuplicate(C11_WireRolls(buffer))
    /\ C11_WireRolls(buffer)[1][2] # C11_WireRolls(buffer)[2][2]
    /\ decoded.value.roll_counts =
           [a \in {C11_WireRolls(buffer)[2][1]} |-> C11_WireRolls(buffer)[2][2]]
    /\ decoded.value.roll_counts_hash # C11_WireRollsFold(C11_WireRolls(buffer))

\* C4: two calls of new_with_hash with the same cycle, complete and rng_seed
\* and with mappings holding the same entries, whatever the orders in which
\* the production_stats mappings iterate, give the same roll_counts_hash,
\* production_stats_hash and cycle_global_hash.
C4_OrderIndependence ==
    pc = "hashed" =>
        /\ cycle_info.roll_counts_hash = other_info.roll_counts_hash
        /\ cycle_info.production_stats_hash = other_info.production_stats_hash
        /\ cycle_info.cycle_global_hash = other_info.cycle_global_hash

C4_Witness ==
    /\ pc = "hashed"
    /\ Len(iter_orders[1]) >= 2
    /\ iter_orders[1] # iter_orders[2]
    /\ DOMAIN cycle_info.roll_counts = Addresses

\* C5: cycle_global_hash is the hash of hash(cycle), hash(complete),
\* hash(rng_seed), roll_counts_hash and production_stats_hash concatenated in
\* that order; the two aggregates start from the all-zero value, so an empty
\* mapping gives the all-zero aggregate; final_state_hash_snapshot is None.
C5_GlobalHashFormula ==
    pc = "hashed" =>
        /\ cycle_info.cycle_global_hash =
               HashComputeFrom(
                   HashComputeFrom(U64VarIntSerialize(cycle_info.cycle))
                       \o HashComputeFrom(
                              U64VarIntSerialize(IF cycle_info.complete THEN 1 ELSE 0))
                       \o HashComputeFrom(BitVecSerialize(cycle_info.rng_seed))
                       \o cycle_info.roll_counts_hash
                       \o cycle_info.production_stats_hash)
        /\ cycle_info.roll_counts_hash = XorAll(RollEntryHashes(cycle_info.roll_counts))
        /\ cycle_info.production_stats_hash =
               XorAll(ProdStatsEntryHashes(cycle_info.production_stats))
        /\ DOMAIN cycle_info.roll_counts = {} =>
               cycle_info.roll_counts_hash = [i \in 1..HASH_SIZE_BYTES |-> 0]
        /\ DOMAIN cycle_info.production_stats = {} =>
               cycle_info.production_stats_hash = [i \in 1..HASH_SIZE_BYTES |-> 0]
        /\ cycle_info.final_state_hash_snapshot = None

C5_Witness ==
    /\ pc = "hashed"
    /\ DOMAIN cycle_info.roll_counts = {}
    /\ DOMAIN cycle_info.production_stats = Addresses
    /\ cycle_info.roll_counts_hash # cycle_info.production_stats_hash
    /\ cycle_info.complete
    /\ Len(cycle_info.rng_seed) = MaxSeedBits

\* C6: after any sequence of add, remove and replace operations that update
\* the aggregate incrementally, the aggregate equals the roll_counts_hash
\* new_with_hash computes from the resulting mapping; removing an entry and
\* adding the same entry again gives back the aggregate held before.
C6_IncrementalConsistency ==
    pc = "rolls" =>
        /\ roll_aggregate =
               new_with_hash(0, FALSE, roll_map, <<>>, EmptyMap, <<>>).roll_counts_hash
        /\ (/\ Len(roll_ops) = 2
            /\ roll_ops[1].op = "add"
            /\ roll_ops[2].op = "remove"
            /\ roll_ops[1].address = roll_ops[2].address
            /\ roll_ops[1].count = roll_ops[2].count)
           => roll_aggregate = roll_ops[2].before

C6_Witness ==
    /\ pc = "rolls"
    /\ Len(roll_ops) = 2
    /\ roll_ops[1].op = "add"
    /\ roll_ops[2].op = "remove"
    /\ roll_ops[1].address = roll_ops[2].address
    /\ roll_ops[1].count = roll_ops[2].count
    /\ DOMAIN roll_map = Addresses
    /\ roll_aggregate # roll_ops[1].before

\* C7: extend sets each counter to min(u64::MAX, own counter + argument's
\* counter), each on its own: no counter decreases or wraps, a counter at
\* u64::MAX stays there, and the argument is left as it was.
C7_ExtendSaturates ==
    extends > 0 =>
        /\ stats.block_success_count =
               Min(U64_MAX, stats_prev.block_success_count
                                + stats_arg.before.block_success_count)
        /\ stats.block_failure_count =
               Min(U64_MAX, stats_prev.block_failure_count
                                + stats_arg.before.block_failure_count)
        /\ stats.block_success_count >= stats_prev.block_success_count
        /\ stats.block_failure_count >= stats_prev.block_failure_count
        /\ stats.block_success_count \in U64
        /\ stats.block_failure_count \in U64
        /\ stats_prev.block_success_count = U64_MAX => stats.block_success_count = U64_MAX
        /\ stats_prev.block_failure_count = U64_MAX => stats.block_failure_count = U64_MAX
        /\ stats_arg.after = stats_arg.before

C7_Witness ==
    /\ extends = MaxExtends
    /\ stats_prev.block_success_count = U64_MAX
    /\ stats_arg.before.block_success_count > 0
    /\ stats.block_success_count = U64_MAX
    /\ stats_prev.block_failure_count + stats_arg.before.block_failure_count > U64_MAX
    /\ stats_prev.block_failure_count < U64_MAX

\* C8: for every pair of counter values, also those whose sum exceeds
\* u64::MAX, is_satisfying returns true when both counters are 0, false when
\* block_failure_count / (block_success_count + block_failure_count) exceeds
\* max_miss_ratio, and true otherwise.
C8_IsSatisfyingByRatio ==
    "outcome" \in DOMAIN satisfying =>
        satisfying.outcome =
            IF stats.block_success_count = 0 /\ stats.block_failure_count = 0
            THEN "true"
            ELSE IF stats.block_failure_count * satisfying.max_miss_ratio[2]
                        > satisfying.max_miss_ratio[1]
                              * (stats.block_success_count + stats.block_failure_count)
                 THEN "false"
                 ELSE "true"

\* a call on counters whose sum does not fit in a u64 that returned true
\* although the failures exceed the ratio of the opportunities
C8_Witness ==
    /\ "outcome" \in DOMAIN satisfying
    /\ stats.block_success_count + stats.block_failure_count > U64_MAX
    /\ stats.block_failure_count * satisfying.max_miss_ratio[2]
           > satisfying.max_miss_ratio[1]
                 * (stats.block_success_count + stats.block_failure_count)
    /\ satisfying.outcome = "true"

====
